---------------------------- MODULE Spec2Model ----------------------------
(***************************************************************************)
(* Model of the HC-12 driver (src/src/hc_12.rs): the command exchange      *)
(* send_command and the public operations built on it, for the blocking    *)
(* and the async driver.  Text is modelled as sequences of bytes (UTF-8),  *)
(* the transport (UART + SET pin) as the variables baud, fifo and set.     *)
(***************************************************************************)
EXTENDS Integers, Sequences, FiniteSets, TLC

(***************************************************************************)
(* Bounds of the model.                                                    *)
(***************************************************************************)
\* bytes of radio traffic that may sit in the receive FIFO while idle
MaxStale == 1
\* bytes the receive FIFO holds (what arrives beyond them is lost)
FifoCap == 14
\* public operations called in one run
MaxCalls == 2
\* transport calls (read, write, flush, set_config) that fail in one run
MaxFaults == 1

(***************************************************************************)
(* Program constants.                                                      *)
(***************************************************************************)
\* `let mut buffer = [0u8; 14]` and String<14>
BufferLen == 14
\* Uart::new(uart, Default::default()): the HAL's default baud rate
DefaultBaud == 115200

(***************************************************************************)
(* Sequence helpers.                                                       *)
(***************************************************************************)
Min(a, b) == IF a < b THEN a ELSE b

Take(s, n) == SubSeq(s, 1, Min(n, Len(s)))

Drop(s, n) == SubSeq(s, n + 1, Len(s))

(***************************************************************************)
(* The enumerations and their conversions.                                 *)
(***************************************************************************)
Driver == {"Blocking", "Async"}

BaudRate ==
    {"Baud1200", "Baud2400", "Baud4800", "Baud9600",
     "Baud19200", "Baud38400", "Baud57600", "Baud115200"}

TransmissionMode == {"Fu1", "Fu2", "Fu3", "Fu4"}

\* impl From<&TransmissionMode> for u32
ModeU32(m) ==
    CASE m = "Fu1" -> 1
      [] m = "Fu2" -> 2
      [] m = "Fu3" -> 3
      [] m = "Fu4" -> 4

\* impl From<BaudRate> for u32
BaudU32(b) ==
    CASE b = "Baud1200" -> 1200
      [] b = "Baud2400" -> 2400
      [] b = "Baud4800" -> 4800
      [] b = "Baud9600" -> 9600
      [] b = "Baud19200" -> 19200
      [] b = "Baud38400" -> 38400
      [] b = "Baud57600" -> 57600
      [] b = "Baud115200" -> 115200

\* impl From<&BaudRate> for u32
BaudU32Ref(b) ==
    CASE b = "Baud1200" -> 1200
      [] b = "Baud2400" -> 2400
      [] b = "Baud4800" -> 4800
      [] b = "Baud9600" -> 9600
      [] b = "Baud19200" -> 19200
      [] b = "Baud38400" -> 38400
      [] b = "Baud57600" -> 57600
      [] b = "Baud115200" -> 115200

\* From<&BaudRate> for &str as it would be with "19200" misspelt "19600"
BaudStrMisspelt(b) ==
    CASE b = "Baud1200" -> <<49, 50, 48, 48>>
      [] b = "Baud2400" -> <<50, 52, 48, 48>>
      [] b = "Baud4800" -> <<52, 56, 48, 48>>
      [] b = "Baud9600" -> <<57, 54, 48, 48>>
      [] b = "Baud19200" -> <<49, 57, 54, 48, 48>>
      [] b = "Baud38400" -> <<51, 56, 52, 48, 48>>
      [] b = "Baud57600" -> <<53, 55, 54, 48, 48>>
      [] b = "Baud115200" -> <<49, 49, 53, 50, 48, 48>>

\* impl From<&BaudRate> for &str (the numeral as ASCII bytes)
BaudStr(b) ==
    CASE b = "Baud1200" -> <<49, 50, 48, 48>>
      [] b = "Baud2400" -> <<50, 52, 48, 48>>
      [] b = "Baud4800" -> <<52, 56, 48, 48>>
      [] b = "Baud9600" -> <<57, 54, 48, 48>>
      [] b = "Baud19200" -> <<49, 57, 50, 48, 48>>
      [] b = "Baud38400" -> <<51, 56, 52, 48, 48>>
      [] b = "Baud57600" -> <<53, 55, 54, 48, 48>>
      [] b = "Baud115200" -> <<49, 49, 53, 50, 48, 48>>

(***************************************************************************)
(* Text: formatting, decoding, splitting, trimming, parsing.               *)
(***************************************************************************)
RECURSIVE FmtU32(_)
\* `{}` of a u32 in write!: its decimal numeral
FmtU32(n) ==
    IF n < 10 THEN <<48 + n>> ELSE FmtU32(n \div 10) \o <<48 + (n % 10)>>

\* write!/push_str into a heapless String<14>: Err when the text does not fit
FitsString(s) == Len(s) <= BufferLen

IsCont(b) == b \in 128..191

RECURSIVE ValidUtf8(_)
\* core::str::from_utf8 validation, as used by String::from_utf8
ValidUtf8(s) ==
    IF s = <<>> THEN TRUE
    ELSE LET b == s[1]
             n == Len(s)
         IN  IF b < 128 THEN ValidUtf8(Drop(s, 1))
             ELSE IF b \in 194..223
                  THEN n >= 2 /\ IsCont(s[2]) /\ ValidUtf8(Drop(s, 2))
             ELSE IF b = 224
                  THEN n >= 3 /\ s[2] \in 160..191 /\ IsCont(s[3])
                       /\ ValidUtf8(Drop(s, 3))
             ELSE IF b \in (225..236) \cup {238, 239}
                  THEN n >= 3 /\ IsCont(s[2]) /\ IsCont(s[3])
                       /\ ValidUtf8(Drop(s, 3))
             ELSE IF b = 237
                  THEN n >= 3 /\ s[2] \in 128..159 /\ IsCont(s[3])
                       /\ ValidUtf8(Drop(s, 3))
             ELSE IF b = 240
                  THEN n >= 4 /\ s[2] \in 144..191 /\ IsCont(s[3])
                       /\ IsCont(s[4]) /\ ValidUtf8(Drop(s, 4))
             ELSE IF b \in 241..243
                  THEN n >= 4 /\ IsCont(s[2]) /\ IsCont(s[3])
                       /\ IsCont(s[4]) /\ ValidUtf8(Drop(s, 4))
             ELSE IF b = 244
                  THEN n >= 4 /\ s[2] \in 128..143 /\ IsCont(s[3])
                       /\ IsCont(s[4]) /\ ValidUtf8(Drop(s, 4))
             ELSE FALSE

\* a Result<String<14>, Hc12Error> (text is empty on Err)
SendOk(text) == [kind |-> "Ok", text |-> text]

SendErr(kind) == [kind |-> kind, text |-> <<>>]

\* String::from_utf8(..).map_err(|_| Hc12Error::InvalidResponse)
FromUtf8(bytes) ==
    IF ValidUtf8(bytes) THEN SendOk(bytes) ELSE SendErr("InvalidResponse")

\* position of the first ',' of s, 0 when there is none
FirstComma(s) ==
    IF \E i \in 1..Len(s) : s[i] = 44
    THEN CHOOSE i \in 1..Len(s) : s[i] = 44 /\ \A j \in 1..(i - 1) : s[j] # 44
    ELSE 0

RECURSIVE Split(_)
\* result.split(","): the fields in order (always at least one)
Split(s) ==
    LET i == FirstComma(s)
    IN  IF i = 0 THEN <<s>> ELSE <<Take(s, i - 1)>> \o Split(Drop(s, i))

\* new_baud_rate[1..] panics unless index 1 is a char boundary of the field
CanSliceFrom1(s) == Len(s) >= 1 /\ (Len(s) = 1 \/ ~IsCont(s[2]))

SliceFrom1(s) == Drop(s, 1)

\* length in bytes of the White_Space character s starts with, 0 if none
WsAtStart(s) ==
    LET n == Len(s)
    IN  IF n >= 1 /\ s[1] \in (9..13) \cup {32} THEN 1
        ELSE IF n >= 2 /\ s[1] = 194 /\ s[2] \in {133, 160} THEN 2
        ELSE IF n >= 3 /\ s[1] = 225 /\ s[2] = 154 /\ s[3] = 128 THEN 3
        ELSE IF n >= 3 /\ s[1] = 226 /\ s[2] = 128
                /\ s[3] \in (128..138) \cup {168, 169, 175} THEN 3
        ELSE IF n >= 3 /\ s[1] = 226 /\ s[2] = 129 /\ s[3] = 159 THEN 3
        ELSE IF n >= 3 /\ s[1] = 227 /\ s[2] = 128 /\ s[3] = 128 THEN 3
        ELSE 0

\* length in bytes of the White_Space character s ends with, 0 if none
WsAtEnd(s) ==
    LET n == Len(s)
    IN  IF n >= 1 /\ s[n] \in (9..13) \cup {32} THEN 1
        ELSE IF n >= 2 /\ WsAtStart(SubSeq(s, n - 1, n)) = 2 THEN 2
        ELSE IF n >= 3 /\ WsAtStart(SubSeq(s, n - 2, n)) = 3 THEN 3
        ELSE 0

RECURSIVE TrimStart(_)
TrimStart(s) == IF WsAtStart(s) = 0 THEN s ELSE TrimStart(Drop(s, WsAtStart(s)))

RECURSIVE TrimEnd(_)
TrimEnd(s) ==
    IF WsAtEnd(s) = 0 THEN s ELSE TrimEnd(Take(s, Len(s) - WsAtEnd(s)))

\* str::trim
Trim(s) == TrimEnd(TrimStart(s))

RECURSIVE AccDigits(_, _)
AccDigits(s, acc) ==
    IF s = <<>> THEN acc
    ELSE IF s[1] \notin 48..57 THEN -1
    ELSE AccDigits(Drop(s, 1), acc * 10 + (s[1] - 48))

\* str::parse::<u32>: the value, or -1 for Err.  An optional leading '+',
\* then at least one digit and only digits.  A field of the 14-byte response
\* has at most 7 bytes after "OK+FUn,", so the value never reaches 2^32; the
\* model reports longer numerals as Err without computing them.
ParseU32(s) ==
    LET d == IF Len(s) >= 1 /\ s[1] = 43 THEN Drop(s, 1) ELSE s
    IN  IF d = <<>> \/ Len(d) > 9 THEN -1 ELSE AccDigits(d, 0)

(***************************************************************************)
(* Command and acknowledgement frames.                                     *)
(***************************************************************************)
\* "AT"
CmdTest == <<65, 84>>

\* write!(command, "AT+B{}", u32::from(baud_rate))
CmdSetBaud(r) == <<65, 84, 43, 66>> \o FmtU32(BaudU32Ref(r))

\* write!(command, "AT+FU{}", u32::from(transmission_mode))
CmdSetMode(m) == <<65, 84, 43, 70, 85>> \o FmtU32(ModeU32(m))

\* "AT+DEFAULT"
CmdDefault == <<65, 84, 43, 68, 69, 70, 65, 85, 76, 84>>

\* "OK\r\n"
OkCrLf == <<79, 75, 13, 10>>

\* "OK+DEFAULT\r\n"
OkDefault == <<79, 75, 43, 68, 69, 70, 65, 85, 76, 84, 13, 10>>

\* write!(expected_response, "OK+B{}\r\n", u32::from(baud_rate))
ExpectedBaud(r) == <<79, 75, 43, 66>> \o FmtU32(BaudU32Ref(r)) \o <<13, 10>>

\* blocking: write!(expected_response, "OK+FU{}", ..)
\* async:    write!(expected_response, "OK+FU{}\r\n", ..)
ExpectedMode(d, m) ==
    <<79, 75, 43, 70, 85>> \o FmtU32(ModeU32(m))
        \o (IF d = "Async" THEN <<13, 10>> ELSE <<>>)

\* the candidates of auto_baud, in the order of the array literal
AutoBaudCandidates ==
    <<"Baud1200", "Baud2400", "Baud4800", "Baud9600",
      "Baud19200", "Baud38400", "Baud57600", "Baud115200">>

(***************************************************************************)
(* What the module may put on the wire after a command was written.  The   *)
(* module is outside the repository: any of these frames may arrive.       *)
(***************************************************************************)
\* silence, "OK\r\n", "OK\n", "ERROR\r\n", a byte that is no UTF-8,
\* "OK+DEFAULT\r\n"
GenericReplies ==
    {<<>>, OkCrLf, <<79, 75, 10>>, <<69, 82, 82, 79, 82, 13, 10>>, <<255>>,
     OkDefault}

\* "OK+FU<m>", without terminator
AckMode(m) == <<79, 75, 43, 70, 85>> \o FmtU32(ModeU32(m))

\* the acknowledgements of AT+FU<m>: one field, two fields, a terminator
\* inside field 0, malformed second fields, and another mode's
ModeReplies(m) ==
    {AckMode(m) \o <<13, 10>>}
    \cup {AckMode(m) \o <<44, 66>> \o BaudStr(n) \o <<13, 10>> : n \in BaudRate}
    \cup {AckMode(m) \o <<13, 10, 44, 66>> \o BaudStr(n) \o <<13, 10>> :
            n \in {"Baud9600", "Baud115200"}}
    \cup {AckMode(m) \o <<44>>,
          AckMode(m) \o <<44, 66, 13, 10>>,
          AckMode(m) \o <<44, 66, 120, 13, 10>>,
          AckMode(m) \o <<44, 195, 169, 57, 54, 48, 48>>,
          AckMode(m) \o <<13, 10, 44>>,
          AckMode(m) \o <<13, 10, 44, 66, 63>>}
    \cup {AckMode(IF m = "Fu4" THEN "Fu1" ELSE "Fu3") \o <<13, 10>>}

\* the acknowledgements of AT+B<r>: of r and of one other rate
BaudReplies(r) ==
    {ExpectedBaud(r), ExpectedBaud(IF r = "Baud4800" THEN "Baud9600" ELSE "Baud4800")}

Replies(o, a) ==
    GenericReplies
    \cup (IF o = "set_baud" THEN BaudReplies(a) ELSE {})
    \cup (IF o = "set_transmission_mode" THEN ModeReplies(a) ELSE {})

(***************************************************************************)
(* State.                                                                  *)
(***************************************************************************)
VARIABLES
    mode,        \* the driver: Hc12<Blocking> or Hc12<Async>
    pc,          \* position of the caller inside the driver
    op,          \* the public operation in progress
    arg,         \* its argument (a BaudRate or a TransmissionMode)
    set,         \* level of the SET (strobe) pin
    baud,        \* baud rate the UART is configured at
    fifo,        \* bytes waiting in the UART receive FIFO
    command,     \* the command frame of the exchange
    tx,          \* bytes the exchange wrote to the UART
    rx,          \* bytes the exchange's response read returned
    sendResult,  \* what send_command returned
    testResult,  \* what test() returned to auto_baud
    result,      \* what the public operation returned
    idx,         \* auto_baud: index of the candidate being probed
    baud0,       \* baud at the call of the public operation
    log,         \* reconfigurations and probes of the operation, in order
    calls,       \* public operations called so far
    faults,      \* transport calls that failed so far
    obs,         \* strobe and transport actions of the exchange in
                 \* progress or just returned from, in order, from the
                 \* drain read that ended the drain loop on; the one
                 \* transport call of a pass-through operation
    pre,         \* bytes in the FIFO when the command frame was written
    fault,       \* first transport call of the operation that failed
                 \* outside the drain loop ("none" if none did)
    retried,     \* an exchange was started after that failure
    phase,       \* 0: one driver; 1, 2: the same calls and the same
                 \* transport behaviour on the blocking, then on the
                 \* async driver
    script,      \* phase 1: the calls and transport behaviour so far;
                 \* phase 2: what is left of them to replay
    trace,       \* phases 1, 2: strobe and transport actions since new
    first        \* phase 2: what the blocking driver did in phase 1

vars ==
    <<mode, pc, op, arg, set, baud, fifo, command, tx, rx, sendResult,
      testResult, result, idx, baud0, log, calls, faults, obs, pre,
      fault, retried, phase, script, trace, first>>

\* an input of a run: a call (op, arg), the outcome of a transport call
\* ("io", ok) or the frame the module answered with ("reply", data)
Entry(o, a, ok, data) == [op |-> o, arg |-> a, ok |-> ok, data |-> data]

\* the next input to replay is of kind k
Next1(k) == script # <<>> /\ script[1].op = k

\* phase 1 records the input, phase 2 consumes it
Scripted(entry) ==
    script' = CASE phase = 1 -> Append(script, entry)
                [] phase = 2 /\ Next1(entry.op) -> Tail(script)
                [] OTHER -> script

\* the outcomes a transport call may have: Ok (TRUE) or Err (FALSE)
Outcomes ==
    IF phase = 2 THEN {IF Next1("io") THEN script[1].ok ELSE TRUE}
    ELSE IF faults < MaxFaults THEN BOOLEAN ELSE {TRUE}

\* the async flush has no counterpart in the blocking driver's run
FlushOutcomes == IF phase = 2 THEN {TRUE} ELSE Outcomes

\* the frames the module answers with in a paired run: to a probe of
\* auto_baud, silence or the acknowledgement
PairReplies(o, a) == IF o = "auto_baud" THEN {<<>>, OkCrLf} ELSE Replies(o, a)

\* the frames the module may answer with
ReplyChoices ==
    CASE phase = 0 -> Replies(op, arg)
      [] phase = 1 -> PairReplies(op, arg)
      [] OTHER -> {IF Next1("reply") THEN script[1].data ELSE <<>>}

Faulted(ok) == faults' = IF ok THEN faults ELSE faults + 1

\* a strobe or transport action: its name, the bytes it moved (or the
\* baud rate it set), whether it returned Ok
Ev(e, data, ok) == [e |-> e, data |-> data, ok |-> ok]

Traced(ev) == trace' = IF phase = 0 THEN trace ELSE Append(trace, ev)

Emit(ev) ==
    /\ obs' = Append(obs, ev)
    /\ Traced(ev)

\* a fallible transport call (read, write, flush, set_config)
Io(e, data, ok) ==
    /\ Faulted(ok)
    /\ Traced(Ev(e, data, ok))
    /\ obs' = IF e = "drain_read" /\ ok /\ data # <<>> THEN obs
              ELSE Append(obs, Ev(e, data, ok))
    /\ IF e = "flush" THEN script' = script
       ELSE Scripted(Entry("io", "none", ok, <<>>))
    /\ fault' = IF ok \/ e = "drain_read" \/ fault # "none" THEN fault ELSE e

\* self.uart.set_config(&Config::default().with_baudrate(rate)), outside
\* any exchange
Config(rate, ok) ==
    /\ Faulted(ok)
    /\ Traced(Ev("config", <<rate>>, ok))
    /\ obs' = <<>>
    /\ Scripted(Entry("io", "none", ok, <<>>))
    /\ fault' = IF ok \/ fault # "none" THEN fault ELSE "config"

\* the operation goes on after its exchange without a transport call
NoIo ==
    /\ obs' = <<>>
    /\ UNCHANGED <<faults, trace, script, fault>>

\* an infallible step of the exchange (pin level, delay, decode)
Step(e) ==
    /\ Emit(Ev(e, <<>>, TRUE))
    /\ UNCHANGED <<script, fault>>

Quiet ==
    /\ obs' = <<>>
    /\ UNCHANGED <<trace, script, fault>>

Keep == UNCHANGED <<pre, retried, phase, first>>

\* send_command has returned to the operation
Over ==
    /\ pre' = 0
    /\ UNCHANGED <<retried, phase, first>>

\* a Result returned by a public operation; val is the BaudRate of Ok(rate)
Res(kind, val) == [kind |-> kind, val |-> val]

NoRes == Res("None", "")

NoSend == SendErr("None")

\* Hc12::new: the level the SET pin is left at
\* blocking: set_high, delay, set_low, delay; async: set_high, delay
NewSet(d) == IF d = "Blocking" THEN "Low" ELSE "High"

\* what a driver has done since new: the strobe and transport actions, the
\* Result (or the panic), the level of SET and the transport's baud rate
Summary(t, p, r, s, b) == [trace |-> t, pc |-> p, result |-> r, set |-> s, baud |-> b]

NoSummary == Summary(<<>>, "idle", NoRes, "High", 0)

Init ==
    /\ mode \in Driver
    /\ pc = "idle"
    /\ op = "none"
    /\ arg = "none"
    /\ set = NewSet(mode)
    /\ baud = DefaultBaud
    /\ fifo = <<>>
    /\ command = <<>>
    /\ tx = <<>>
    /\ rx = <<>>
    /\ sendResult = NoSend
    /\ testResult = NoRes
    /\ result = NoRes
    /\ idx = 1
    /\ baud0 = DefaultBaud
    /\ log = <<>>
    /\ calls = 0
    /\ faults = 0
    /\ obs = <<>>
    /\ pre = 0
    /\ fault = "none"
    /\ retried = FALSE
    /\ phase = 0
    /\ script = <<>>
    /\ trace = <<>>
    /\ first = NoSummary

(***************************************************************************)
(* Calls of the public operations.                                         *)
(***************************************************************************)
\* entry of a public operation: the command frame is built with
\* push_str(..).unwrap() / write!(..).unwrap(), which panics when it does
\* not fit the String<14>
Begin(o, a, cmd, next) ==
    /\ calls < MaxCalls
    /\ phase = 2 => (Next1(o) /\ script[1].arg = a)
    /\ Scripted(Entry(o, a, TRUE, <<>>))
    /\ calls' = calls + 1
    /\ obs' = <<>>
    /\ pre' = 0
    /\ fault' = "none"
    /\ retried' = FALSE
    /\ UNCHANGED <<phase, trace, first>>
    /\ op' = o
    /\ arg' = a
    /\ command' = cmd
    /\ pc' = IF FitsString(cmd) THEN next ELSE "panicked"
    /\ baud0' = baud
    /\ log' = <<>>
    /\ tx' = <<>>
    /\ rx' = <<>>
    /\ sendResult' = NoSend
    /\ testResult' = NoRes
    /\ result' = NoRes
    /\ idx' = 1
    /\ UNCHANGED <<mode, set, baud, fifo, faults>>

CallTest ==
    /\ pc = "idle"
    /\ Begin("test", "none", CmdTest, "drain")

CallAutoBaud ==
    /\ pc = "idle"
    /\ Begin("auto_baud", "none", <<>>, "ab_config")

CallSetBaud ==
    /\ pc = "idle"
    /\ \E r \in BaudRate : Begin("set_baud", r, CmdSetBaud(r), "drain")

CallSetTransmissionMode ==
    /\ pc = "idle"
    /\ \E m \in TransmissionMode :
          Begin("set_transmission_mode", m, CmdSetMode(m), "drain")

CallSetDefault ==
    /\ pc = "idle"
    /\ Begin("set_default", "none", CmdDefault, "drain")

(***************************************************************************)
(* send_command, one action per step.                                      *)
(***************************************************************************)
\* what read_buffered_bytes(&mut buffer) takes out of the FIFO
ReadLen(f) == Min(BufferLen, Len(f))

\* one turn of `while read_buffered_bytes(..).is_ok_and(|n| n != 0) {}`
Drain ==
    /\ pc = "drain"
    /\ \E ok \in Outcomes :
        /\ Io("drain_read", IF ok THEN Take(fifo, ReadLen(fifo)) ELSE <<>>, ok)
        /\ IF ok
           THEN /\ fifo' = Drop(fifo, ReadLen(fifo))
                /\ pc' = IF ReadLen(fifo) # 0 THEN "drain" ELSE "set_low"
           ELSE /\ fifo' = fifo
                /\ pc' = "set_low"
    /\ UNCHANGED <<mode, op, arg, set, baud, command, tx, rx, sendResult,
                   testResult, result, idx, baud0, log, calls>>
    /\ Keep

\* self.set.set_low()
SetLow ==
    /\ pc = "set_low"
    /\ set' = "Low"
    /\ pc' = "low_delay"
    /\ UNCHANGED <<mode, op, arg, baud, fifo, command, tx, rx, sendResult,
                   testResult, result, idx, baud0, log, calls, faults>>
    /\ Step("set_low")
    /\ Keep

\* delay_millis(200) / Timer::after_millis(200).await
LowDelay ==
    /\ pc = "low_delay"
    /\ pc' = "write"
    /\ UNCHANGED <<mode, op, arg, set, baud, fifo, command, tx, rx,
                   sendResult, testResult, result, idx, baud0, log, calls, faults>>
    /\ Step("delay")
    /\ Keep

\* where send_command goes after write_bytes returned Ok
AfterWrite(d) == IF d = "Async" THEN "flush" ELSE "resp_delay"

\* self.uart.write_bytes(command.as_bytes())?
Write ==
    /\ pc = "write"
    /\ \E ok \in Outcomes :
        /\ Io("write", command, ok)
        /\ pre' = IF ok THEN Len(fifo) ELSE pre
        /\ IF ok
           THEN /\ tx' = command
                /\ pc' = AfterWrite(mode)
                /\ sendResult' = sendResult
           ELSE /\ tx' = tx
                /\ pc' = "sent"
                /\ sendResult' = SendErr("UartError")
    /\ UNCHANGED <<mode, op, arg, set, baud, fifo, command, rx, testResult,
                   result, idx, baud0, log, calls>>
    /\ UNCHANGED <<retried, phase, first>>

\* async only: self.uart.flush_async().await?
Flush ==
    /\ pc = "flush"
    /\ \E ok \in FlushOutcomes :
        /\ Io("flush", <<>>, ok)
        /\ IF ok
           THEN /\ pc' = "resp_delay"
                /\ sendResult' = sendResult
           ELSE /\ pc' = "sent"
                /\ sendResult' = SendErr("UartError")
    /\ UNCHANGED <<mode, op, arg, set, baud, fifo, command, tx, rx,
                   testResult, result, idx, baud0, log, calls>>
    /\ Keep

\* delay_millis(200) / Timer::after_millis(80).await: the module's reply,
\* if any, arrives in the FIFO meanwhile
RespDelay ==
    /\ pc = "resp_delay"
    /\ \E reply \in ReplyChoices :
        /\ fifo' = Take(fifo \o reply, FifoCap)
        /\ Scripted(Entry("reply", "none", TRUE, reply))
    /\ Emit(Ev("delay", <<>>, TRUE))
    /\ fault' = fault
    /\ pc' = "read"
    /\ UNCHANGED <<mode, op, arg, set, baud, command, tx, rx, sendResult,
                   testResult, result, idx, baud0, log, calls, faults>>
    /\ Keep

\* let bytes_read = self.uart.read_buffered_bytes(&mut buffer)?
Read ==
    /\ pc = "read"
    /\ \E ok \in Outcomes :
        /\ Io("read", IF ok THEN Take(fifo, ReadLen(fifo)) ELSE <<>>, ok)
        /\ IF ok
           THEN /\ rx' = Take(fifo, ReadLen(fifo))
                /\ fifo' = Drop(fifo, ReadLen(fifo))
                /\ pc' = "set_high"
                /\ sendResult' = sendResult
           ELSE /\ rx' = rx
                /\ fifo' = fifo
                /\ pc' = "sent"
                /\ sendResult' = SendErr("UartError")
    /\ UNCHANGED <<mode, op, arg, set, baud, command, tx, testResult,
                   result, idx, baud0, log, calls>>
    /\ Keep

\* self.set.set_high()
SetHigh ==
    /\ pc = "set_high"
    /\ set' = "High"
    /\ pc' = "high_delay"
    /\ UNCHANGED <<mode, op, arg, baud, fifo, command, tx, rx, sendResult,
                   testResult, result, idx, baud0, log, calls, faults>>
    /\ Step("set_high")
    /\ Keep

\* delay_millis(200) / Timer::after_millis(200).await
HighDelay ==
    /\ pc = "high_delay"
    /\ pc' = "decode"
    /\ UNCHANGED <<mode, op, arg, set, baud, fifo, command, tx, rx,
                   sendResult, testResult, result, idx, baud0, log, calls, faults>>
    /\ Step("delay")
    /\ Keep

\* String::from_utf8(Vec::from_slice(&buffer[0..bytes_read]).unwrap())
\*     .map_err(|_| Hc12Error::InvalidResponse)
Decode ==
    /\ pc = "decode"
    /\ IF Len(rx) <= BufferLen
       THEN /\ sendResult' = FromUtf8(rx)
            /\ pc' = "sent"
       ELSE /\ sendResult' = sendResult
            /\ pc' = "panicked"
    /\ UNCHANGED <<mode, op, arg, set, baud, fifo, command, tx, rx,
                   testResult, result, idx, baud0, log, calls, faults>>
    /\ Step("decode")
    /\ Keep

(***************************************************************************)
(* test and auto_baud.                                                     *)
(***************************************************************************)
\* test() as it would be with the terminator trimmed before the comparison
TestResultTrimmed(sr) ==
    IF sr.kind # "Ok" THEN Res(sr.kind, "")
    ELSE IF Trim(sr.text) # <<79, 75>> THEN Res("Test", "")
    ELSE Res("Ok", "")

\* test(): `let result = self.send_command(&command)?;`
\*         `if result != "OK\r\n" { return Err(Hc12Error::Test); } Ok(())`
TestResult(sr) ==
    IF sr.kind # "Ok" THEN Res(sr.kind, "")
    ELSE IF sr.text # OkCrLf THEN Res("Test", "")
    ELSE Res("Ok", "")

\* send_command returned to test(), called by the application or by auto_baud
TestReturn ==
    /\ pc = "sent"
    /\ op \in {"test", "auto_baud"}
    /\ IF op = "test"
       THEN /\ result' = TestResult(sendResult)
            /\ testResult' = testResult
            /\ pc' = "done"
       ELSE /\ testResult' = TestResult(sendResult)
            /\ result' = result
            /\ pc' = "ab_check"
    /\ UNCHANGED <<mode, op, arg, set, baud, fifo, command, tx, rx,
                   sendResult, idx, baud0, log, calls, faults>>
    /\ Quiet
    /\ Over

\* auto_baud: set_config(&Config::default().with_baudrate(..)).unwrap()
AutoBaudConfig ==
    /\ pc = "ab_config"
    /\ \E ok \in Outcomes :
        /\ Config(BaudU32(AutoBaudCandidates[idx]), ok)
        /\ log' = Append(log, <<"cfg", BaudU32(AutoBaudCandidates[idx]), ok>>)
        /\ IF ok
           THEN /\ baud' = BaudU32(AutoBaudCandidates[idx])
                /\ pc' = "ab_delay"
           ELSE /\ baud' = baud
                /\ pc' = "panicked"
    /\ UNCHANGED <<mode, op, arg, set, fifo, command, tx, rx, sendResult,
                   testResult, result, idx, baud0, calls>>
    /\ Keep

\* auto_baud: the 40 ms delay, then test() builds "AT" and enters send_command
AutoBaudDelay ==
    /\ pc = "ab_delay"
    /\ command' = CmdTest
    /\ pc' = IF FitsString(CmdTest) THEN "drain" ELSE "panicked"
    /\ tx' = <<>>
    /\ rx' = <<>>
    /\ sendResult' = NoSend
    /\ testResult' = NoRes
    /\ UNCHANGED <<mode, op, arg, set, baud, fifo, result, idx, baud0, log, calls, faults>>
    /\ obs' = <<>>
    /\ pre' = 0
    /\ retried' = (retried \/ fault # "none")
    /\ UNCHANGED <<fault, phase, script, trace, first>>

\* auto_baud as it would be with the test of the probe inverted (is_err)
AutoBaudStepInverted(i, ok) ==
    IF ~ok
    THEN [pc |-> "done", idx |-> i, result |-> Res("Ok", AutoBaudCandidates[i])]
    ELSE IF i < Len(AutoBaudCandidates)
    THEN [pc |-> "ab_config", idx |-> i + 1, result |-> NoRes]
    ELSE [pc |-> "done", idx |-> i, result |-> Res("AutoBaudRate", "")]

\* auto_baud as it would be with the last candidate left out of the scan
AutoBaudStepShort(i, ok) ==
    IF ok
    THEN [pc |-> "done", idx |-> i, result |-> Res("Ok", AutoBaudCandidates[i])]
    ELSE IF i < Len(AutoBaudCandidates) - 1
    THEN [pc |-> "ab_config", idx |-> i + 1, result |-> NoRes]
    ELSE [pc |-> "done", idx |-> i, result |-> Res("AutoBaudRate", "")]

\* auto_baud: `if self.test().is_ok() { return Ok(baud_rate); }`, the next
\* turn of the for loop, and `Err(Hc12Error::AutoBaudRate)` after the last
AutoBaudStep(i, ok) ==
    IF ok
    THEN [pc |-> "done", idx |-> i, result |-> Res("Ok", AutoBaudCandidates[i])]
    ELSE IF i < Len(AutoBaudCandidates)
    THEN [pc |-> "ab_config", idx |-> i + 1, result |-> NoRes]
    ELSE [pc |-> "done", idx |-> i, result |-> Res("AutoBaudRate", "")]

AutoBaudCheck ==
    /\ pc = "ab_check"
    /\ LET ok == testResult.kind = "Ok"
           n == AutoBaudStep(idx, ok)
       IN  /\ log' = Append(log, <<"test", BaudU32(AutoBaudCandidates[idx]), ok>>)
           /\ pc' = n.pc
           /\ idx' = n.idx
           /\ result' = n.result
    /\ UNCHANGED <<mode, op, arg, set, baud, fifo, command, tx, rx,
                   sendResult, testResult, baud0, calls, faults>>
    /\ Quiet
    /\ Keep

(***************************************************************************)
(* set_baud.                                                               *)
(***************************************************************************)
\* set_baud as it would be with the expected response lacking its "\r\n"
SetBaudCheckNoTerminator(text, r) ==
    IF text # <<79, 75, 43, 66>> \o FmtU32(BaudU32Ref(r))
    THEN Res("BaudRate", "")
    ELSE Res("Ok", "")

\* `if result != expected_response { return Err(Hc12Error::BaudRate); } Ok(())`
SetBaudCheck(text, r) ==
    IF text # ExpectedBaud(r) THEN Res("BaudRate", "") ELSE Res("Ok", "")

\* set_baud after `self.send_command(&command)?`: set_config(..)
\* .map_err(|_| Hc12Error::TransmissionMode)?, then the comparison
SetBaudFinish ==
    /\ pc = "sent"
    /\ op = "set_baud"
    /\ IF sendResult.kind # "Ok"
       THEN /\ result' = Res(sendResult.kind, "")
            /\ baud' = baud
            /\ log' = log
            /\ NoIo
       ELSE \E ok \in Outcomes :
            /\ Config(BaudU32Ref(arg), ok)
            /\ log' = Append(log, <<"cfg", BaudU32Ref(arg), ok>>)
            /\ IF ok
               THEN /\ baud' = BaudU32Ref(arg)
                    /\ result' = SetBaudCheck(sendResult.text, arg)
               ELSE /\ baud' = baud
                    /\ result' = Res("TransmissionMode", "")
    /\ pc' = "done"
    /\ UNCHANGED <<mode, op, arg, set, fifo, command, tx, rx, sendResult,
                   testResult, idx, baud0, calls>>
    /\ Over

(***************************************************************************)
(* set_transmission_mode.                                                  *)
(***************************************************************************)
\* what set_transmission_mode does with the decoded response:
\*   "TransmissionMode"  field 0 differs from the expected response
\*   "Ok"                no second field
\*   "Panic"             new_baud_rate[1..] or str::parse(..).unwrap() panics
\*   "Config"            set_config is called with baud rate val
ModeOutcome(d, text, m) ==
    LET f == Split(text)
    IN  IF f[1] # ExpectedMode(d, m) THEN [kind |-> "TransmissionMode", val |-> 0]
        ELSE IF Len(f) < 2 THEN [kind |-> "Ok", val |-> 0]
        ELSE IF ~CanSliceFrom1(f[2]) THEN [kind |-> "Panic", val |-> 0]
        ELSE IF ParseU32(Trim(SliceFrom1(f[2]))) = -1
             THEN [kind |-> "Panic", val |-> 0]
        ELSE [kind |-> "Config", val |-> ParseU32(Trim(SliceFrom1(f[2])))]

SetTransmissionModeFinish ==
    /\ pc = "sent"
    /\ op = "set_transmission_mode"
    /\ IF sendResult.kind # "Ok"
       THEN /\ result' = Res(sendResult.kind, "")
            /\ pc' = "done"
            /\ baud' = baud
            /\ log' = log
            /\ NoIo
       ELSE LET o == ModeOutcome(mode, sendResult.text, arg)
            IN  CASE o.kind = "Panic" ->
                       /\ result' = result
                       /\ pc' = "panicked"
                       /\ baud' = baud
                       /\ log' = log
                       /\ NoIo
                  [] o.kind = "Config" ->
                       \E ok \in Outcomes :
                           /\ Config(o.val, ok)
                           /\ log' = Append(log, <<"cfg", o.val, ok>>)
                           /\ baud' = IF ok THEN o.val ELSE baud
                           /\ result' = IF ok THEN Res("Ok", "")
                                        ELSE Res("TransmissionMode", "")
                           /\ pc' = "done"
                  [] OTHER ->
                       /\ result' = Res(o.kind, "")
                       /\ pc' = "done"
                       /\ baud' = baud
                       /\ log' = log
                       /\ NoIo
    /\ UNCHANGED <<mode, op, arg, set, fifo, command, tx, rx, sendResult,
                   testResult, idx, baud0, calls>>
    /\ Over

(***************************************************************************)
(* set_default.                                                            *)
(***************************************************************************)
\* set_default as it would be with `?` alone in place of map_err: the
\* error kind of the exchange reaches the caller
DefaultResultPropagate(sr) ==
    IF sr.kind # "Ok" THEN Res(sr.kind, "")
    ELSE IF sr.text # OkDefault THEN Res("Default", "")
    ELSE Res("Ok", "")

\* `self.send_command(&command).map_err(|_| Hc12Error::Default)?` and
\* `if result != ("OK+DEFAULT\r\n") { return Err(Hc12Error::Default); }`
DefaultResult(sr) ==
    IF sr.kind # "Ok" THEN Res("Default", "")
    ELSE IF sr.text # OkDefault THEN Res("Default", "")
    ELSE Res("Ok", "")

SetDefaultFinish ==
    /\ pc = "sent"
    /\ op = "set_default"
    /\ result' = DefaultResult(sendResult)
    /\ pc' = "done"
    /\ UNCHANGED <<mode, op, arg, set, baud, fifo, command, tx, rx,
                   sendResult, testResult, idx, baud0, log, calls, faults>>
    /\ Quiet
    /\ Over

(***************************************************************************)
(* The pass-through operations: read_buffered, write / write_async,        *)
(* read / read_async, flush_async.                                         *)
(***************************************************************************)
\* the bytes the application hands to write / write_async
PassData == <<72>>

\* the name of a pass-through operation in each driver
PassName(d, blocking, async) == IF d = "Blocking" THEN blocking ELSE async

\* a pass-through operation as it would be if it mapped a transport error
\* to a driver error kind of its own
PassResultMapped(ok) == IF ok THEN Res("Ok", "") ELSE Res("Test", "")

\* the Result of the transport call is the Result of the operation
PassResult(ok) == IF ok THEN Res("Ok", "") ELSE Res("UartError", "")

\* one call of the transport method and nothing else
PassThrough(o, e, data, ok) ==
    /\ phase = 0
    /\ calls < MaxCalls
    /\ calls' = calls + 1
    /\ op' = o
    /\ arg' = "none"
    /\ pc' = "done"
    /\ result' = PassResult(ok)
    /\ Faulted(ok)
    /\ obs' = <<Ev(e, data, ok)>>
    /\ fault' = IF ok THEN "none" ELSE e
    /\ baud0' = baud
    /\ pre' = 0
    /\ retried' = FALSE
    /\ UNCHANGED <<mode, set, baud, command, sendResult, testResult, idx,
                   log, phase, script, trace, first>>

\* self.uart.read_buffered_bytes(buffer): takes what the FIFO holds, up to
\* the length n of the caller's buffer
ReadBuffered ==
    /\ pc = "idle"
    /\ \E n \in 1..MaxStale, ok \in Outcomes :
        LET k == Min(n, Len(fifo))
        IN  /\ PassThrough("read_buffered", "read",
                           IF ok THEN Take(fifo, k) ELSE <<>>, ok)
            /\ rx' = IF ok THEN Take(fifo, k) ELSE <<>>
            /\ fifo' = IF ok THEN Drop(fifo, k) ELSE fifo
            /\ tx' = <<>>

\* self.uart.write_bytes(data); async: self.uart.write_async(data).await
PassWrite ==
    /\ pc = "idle"
    /\ \E ok \in Outcomes :
        /\ PassThrough(PassName(mode, "write", "write_async"), "write",
                       PassData, ok)
        /\ tx' = IF ok THEN PassData ELSE <<>>
        /\ rx' = <<>>
        /\ fifo' = fifo

\* self.uart.read_bytes(buffer), which returns once the buffer of length n
\* is full; self.uart.read_async(buffer).await, which returns once at least
\* one byte is there
PassRead ==
    /\ pc = "idle"
    /\ \E n \in 1..MaxStale, ok \in Outcomes :
        LET k == Min(n, Len(fifo))
        IN  /\ Len(fifo) >= (IF mode = "Blocking" THEN n ELSE 1)
            /\ PassThrough(PassName(mode, "read", "read_async"), "read",
                           IF ok THEN Take(fifo, k) ELSE <<>>, ok)
            /\ rx' = IF ok THEN Take(fifo, k) ELSE <<>>
            /\ fifo' = IF ok THEN Drop(fifo, k) ELSE fifo
            /\ tx' = <<>>

\* async only: self.uart.flush_async().await
PassFlush ==
    /\ pc = "idle"
    /\ mode = "Async"
    /\ \E ok \in Outcomes :
        /\ PassThrough("flush_async", "flush", <<>>, ok)
        /\ tx' = <<>>
        /\ rx' = <<>>
        /\ fifo' = fifo

(***************************************************************************)
(* The caller and the radio.                                               *)
(***************************************************************************)
\* the positions at which an async operation is suspended in an .await
AwaitPoints == {"low_delay", "flush", "resp_delay", "high_delay", "ab_delay"}

\* the caller drops the future of an async operation that is suspended:
\* nothing of it runs any more, its locals are gone, and the caller is free
\* to call again
Cancel ==
    /\ mode = "Async"
    /\ phase = 0
    /\ pc \in AwaitPoints
    /\ pc' = "idle"
    /\ op' = "none"
    /\ arg' = "none"
    /\ command' = <<>>
    /\ tx' = <<>>
    /\ rx' = <<>>
    /\ sendResult' = NoSend
    /\ testResult' = NoRes
    /\ result' = NoRes
    /\ idx' = 1
    /\ baud0' = baud
    /\ log' = <<>>
    /\ obs' = <<>>
    /\ pre' = 0
    /\ fault' = "none"
    /\ retried' = FALSE
    /\ UNCHANGED <<mode, set, baud, fifo, calls, faults, phase, script,
                   trace, first>>

\* the application takes the Result and is free to call again
Return ==
    /\ pc = "done"
    /\ pc' = "idle"
    /\ op' = "none"
    /\ arg' = "none"
    /\ command' = <<>>
    /\ tx' = <<>>
    /\ rx' = <<>>
    /\ sendResult' = NoSend
    /\ testResult' = NoRes
    /\ result' = NoRes
    /\ idx' = 1
    /\ baud0' = baud
    /\ log' = <<>>
    /\ UNCHANGED <<mode, set, baud, fifo, calls, faults>>
    /\ phase = 0
    /\ obs' = <<>>
    /\ pre' = 0
    /\ fault' = "none"
    /\ retried' = FALSE
    /\ UNCHANGED <<phase, script, trace, first>>

\* a byte received over the air reaches the FIFO while no exchange runs
RadioRx ==
    /\ pc = "idle"
    /\ Len(fifo) < MaxStale
    /\ fifo' = Append(fifo, 88)
    /\ UNCHANGED <<mode, pc, op, arg, set, baud, command, tx, rx,
                   sendResult, testResult, result, idx, baud0, log, calls, faults>>
    /\ phase = 0
    /\ Quiet
    /\ Keep

\* the blocking driver's run is over: the async driver is constructed and
\* is given the same calls, the same transport outcomes and the same
\* replies of the module
SwitchDriver ==
    /\ phase = 1
    /\ pc \in {"done", "panicked"}
    /\ first' = Summary(trace, pc, result, set, baud)
    /\ phase' = 2
    /\ mode' = "Async"
    /\ pc' = "idle"
    /\ op' = "none"
    /\ arg' = "none"
    /\ set' = NewSet("Async")
    /\ baud' = DefaultBaud
    /\ fifo' = <<>>
    /\ command' = <<>>
    /\ tx' = <<>>
    /\ rx' = <<>>
    /\ sendResult' = NoSend
    /\ testResult' = NoRes
    /\ result' = NoRes
    /\ idx' = 1
    /\ baud0' = DefaultBaud
    /\ log' = <<>>
    /\ calls' = 0
    /\ faults' = 0
    /\ obs' = <<>>
    /\ pre' = 0
    /\ fault' = "none"
    /\ retried' = FALSE
    /\ trace' = <<>>
    /\ script' = script

Next ==
    \/ CallTest
    \/ CallAutoBaud
    \/ CallSetBaud
    \/ CallSetTransmissionMode
    \/ CallSetDefault
    \/ Drain
    \/ SetLow
    \/ LowDelay
    \/ Write
    \/ Flush
    \/ RespDelay
    \/ Read
    \/ SetHigh
    \/ HighDelay
    \/ Decode
    \/ TestReturn
    \/ AutoBaudConfig
    \/ AutoBaudDelay
    \/ AutoBaudCheck
    \/ SetBaudFinish
    \/ SetTransmissionModeFinish
    \/ SetDefaultFinish
    \/ ReadBuffered
    \/ PassWrite
    \/ PassRead
    \/ PassFlush
    \/ Cancel
    \/ Return
    \/ RadioRx

Spec == Init /\ [][Next]_vars

\* a paired run: Hc12::<Blocking>::new and one operation, run to its end,
\* then Hc12::<Async>::new and the same operation in the same environment
InitPair ==
    /\ mode = "Blocking"
    /\ pc = "idle"
    /\ op = "none"
    /\ arg = "none"
    /\ set = NewSet("Blocking")
    /\ baud = DefaultBaud
    /\ fifo = <<>>
    /\ command = <<>>
    /\ tx = <<>>
    /\ rx = <<>>
    /\ sendResult = NoSend
    /\ testResult = NoRes
    /\ result = NoRes
    /\ idx = 1
    /\ baud0 = DefaultBaud
    /\ log = <<>>
    /\ calls = 0
    /\ faults = 0
    /\ obs = <<>>
    /\ pre = 0
    /\ fault = "none"
    /\ retried = FALSE
    /\ phase = 1
    /\ script = <<>>
    /\ trace = <<>>
    /\ first = NoSummary

NextPair ==
    \/ CallTest
    \/ CallAutoBaud
    \/ CallSetBaud
    \/ CallSetTransmissionMode
    \/ CallSetDefault
    \/ Drain
    \/ SetLow
    \/ LowDelay
    \/ Write
    \/ Flush
    \/ RespDelay
    \/ Read
    \/ SetHigh
    \/ HighDelay
    \/ Decode
    \/ TestReturn
    \/ AutoBaudConfig
    \/ AutoBaudDelay
    \/ AutoBaudCheck
    \/ SetBaudFinish
    \/ SetTransmissionModeFinish
    \/ SetDefaultFinish
    \/ SwitchDriver

SpecPair == InitPair /\ [][NextPair]_vars

TypeOK ==
    /\ mode \in Driver
    /\ set \in {"High", "Low"}
    /\ baud \in Nat
    /\ Len(fifo) <= FifoCap
    /\ Len(rx) <= BufferLen
    /\ idx \in 1..Len(AutoBaudCandidates)
    /\ calls \in 0..MaxCalls
    /\ faults \in 0..MaxFaults
    /\ pre \in 0..FifoCap
    /\ fault \in {"none", "write", "flush", "read", "config"}
    /\ retried \in BOOLEAN
    /\ phase \in 0..2

(***************************************************************************)
(* Vocabulary of the properties.                                           *)
(***************************************************************************)
\* the public operation o has returned a Result to its caller
Returned(o) == pc = "done" /\ op = o

\* the public operation o has ended, by returning or by panicking
Ended(o) == pc \in {"done", "panicked"} /\ op = o

\* the exchange's write and read both returned without a transport fault
ByteLevelOk == sendResult.kind \in {"Ok", "InvalidResponse"}

\* no set_config of the operation was rejected by the transport
NoConfigFault == \A i \in 1..Len(log) : log[i][1] = "cfg" => log[i][3]

\* "OK+B<r>\r\n", spelled with the numeral string of the rate
AckBaudText(r) == <<79, 75, 43, 66>> \o BaudStr(r) \o <<13, 10>>

\* what a read returns of "OK+FU<m>,B<n>\r\n"
TwoFieldText(m, n) ==
    Take(AckMode(m) \o <<44, 66>> \o BaudStr(n) \o <<13, 10>>, BufferLen)

\* "OK+FU<m>\r\n"
OneFieldText(m) == AckMode(m) \o <<13, 10>>

\* the second field cannot be parsed as a baud integer after dropping its
\* marker byte and trimming whitespace
Unparsable(field) ==
    \/ ~CanSliceFrom1(field)
    \/ ParseU32(Trim(SliceFrom1(field))) = -1

\* the rates of the scan, ascending
Ascending == <<1200, 2400, 4800, 9600, 19200, 38400, 57600, 115200>>

\* the probes (calls of test()) auto_baud has completed, in order
Probes == SelectSeq(log, LAMBDA e : e[1] = "test")

\* the operations that exchange commands with the module
CommandOps ==
    {"test", "auto_baud", "set_baud", "set_transmission_mode", "set_default"}

\* the strobe transitions and transport calls of a trace, delays and
\* decoding left out
Observable(t) ==
    SelectSeq(t, LAMBDA ev : ev.e \in {"set_low", "set_high", "drain_read",
                                       "write", "flush", "read", "config"})

\* the exchange has driven SET low and has not driven it high since
StrobeHeldLow ==
    \E i \in 1..Len(obs) :
        /\ obs[i].e = "set_low"
        /\ \A j \in (i + 1)..Len(obs) : obs[j].e # "set_high"

\* the pass-through operations of both drivers
PassOps ==
    {"read_buffered", "write", "read", "write_async", "read_async",
     "flush_async"}

\* the transport call a pass-through operation forwards to
PassCall(o) ==
    CASE o \in {"write", "write_async"} -> "write"
      [] o = "flush_async" -> "flush"
      [] OTHER -> "read"

\* the steps of an exchange after its drain loop, as claimed
ClaimedSteps ==
    <<"set_low", "delay", "write", "flush", "delay", "read", "set_high",
      "delay", "decode">>

(***************************************************************************)
(* C1 (as claimed).  Whenever send_command has returned to its caller, on  *)
(* the success path, on an undecodable response or on a transport fault of *)
(* the write or the read, the SET line is high.                            *)
(***************************************************************************)
C1_StrobeHighOnReturn == pc = "sent" => set = "High"

C3_ReconfigIffByteLevel ==
    Returned("set_baud") =>
        /\ ByteLevelOk <=> Len(log) = 1
        /\ ~ByteLevelOk => baud = baud0

(***************************************************************************)
(* C4 (as claimed).  In both drivers, set_transmission_mode(m) against the *)
(* response "OK+FU<m>,B<n>\r\n", n a supported rate, returns Ok and the    *)
(* transport is configured at n (the transport accepting the               *)
(* reconfiguration).                                                       *)
(***************************************************************************)
C4_TwoFieldOk ==
    \A n \in BaudRate :
        (/\ Ended("set_transmission_mode")
         /\ sendResult.kind = "Ok"
         /\ sendResult.text = TwoFieldText(arg, n)
         /\ NoConfigFault) =>
            /\ pc = "done"
            /\ result.kind = "Ok"
            /\ baud = BaudU32(n)

(***************************************************************************)
(* C5 (as claimed).  In both drivers, set_transmission_mode(m) against the *)
(* response "OK+FU<m>\r\n" returns Ok and leaves the baud rate unchanged.  *)
(***************************************************************************)
C5_OneFieldOk ==
    (/\ Ended("set_transmission_mode")
     /\ sendResult.kind = "Ok"
     /\ sendResult.text = OneFieldText(arg)) =>
        /\ pc = "done"
        /\ result.kind = "Ok"
        /\ baud = baud0
        /\ log = <<>>

(***************************************************************************)
(* C6 (as claimed).  When the first comma-delimited field of the decoded   *)
(* response differs from "OK+FU<m>", set_transmission_mode(m) fails with   *)
(* Hc12Error::TransmissionMode and does not reconfigure the transport.     *)
(***************************************************************************)
C6_Field0Mismatch ==
    (/\ Ended("set_transmission_mode")
     /\ sendResult.kind = "Ok"
     /\ Split(sendResult.text)[1] # AckMode(arg)) =>
        /\ pc = "done"
        /\ result.kind = "TransmissionMode"
        /\ log = <<>>
        /\ baud = baud0

(***************************************************************************)
(* C7 (as claimed).  When field 0 of the response is "OK+FU<m>" and a      *)
(* second field is present that cannot be parsed as a baud integer,        *)
(* set_transmission_mode returns Hc12Error::TransmissionMode to its        *)
(* caller.                                                                 *)
(***************************************************************************)
C7_UnparsableField1 ==
    (/\ Ended("set_transmission_mode")
     /\ sendResult.kind = "Ok"
     /\ Split(sendResult.text)[1] = AckMode(arg)
     /\ Len(Split(sendResult.text)) >= 2
     /\ Unparsable(Split(sendResult.text)[2])) =>
        /\ pc = "done"
        /\ result.kind = "TransmissionMode"

(***************************************************************************)
(* C8.  auto_baud reconfigures the transport to each candidate, in the     *)
(* order 1200 .. 115200, before it calls test() at it; when it returns     *)
(* Ok(r), r is the first candidate at which test() succeeded, nothing was  *)
(* reconfigured or probed after that success, and the transport is         *)
(* configured at r; when test() succeeded at the probes of rate R and at   *)
(* no other, it returns Ok(R).                                             *)
(***************************************************************************)
C8_AutoBaudFirstSuccess ==
    op = "auto_baud" =>
        /\ Len(log) <= 2 * Len(Ascending)
        /\ \A i \in 1..Len(log) :
              /\ log[i][1] = (IF i % 2 = 1 THEN "cfg" ELSE "test")
              /\ log[i][2] = Ascending[(i + 1) \div 2]
              /\ i < Len(log) => (log[i][3] <=> i % 2 = 1)
        /\ (pc = "done" /\ result.kind = "Ok") =>
              /\ Len(log) % 2 = 0
              /\ Len(log) >= 2
              /\ log[Len(log)] = <<"test", BaudU32(result.val), TRUE>>
              /\ \A i \in 1..(Len(Probes) - 1) : ~Probes[i][3]
              /\ baud = BaudU32(result.val)
        /\ \A R \in BaudRate :
              (/\ pc = "done"
               /\ \A i \in 1..Len(Probes) :
                     Probes[i][3] <=> Probes[i][2] = BaudU32(R)) =>
                  result = Res("Ok", R)

\* auto_baud returned Ok(9600) after failed probes at 1200, 2400 and 4800
C8_Witness ==
    /\ Returned("auto_baud")
    /\ result = Res("Ok", "Baud9600")
    /\ baud = 9600
    /\ Len(Probes) = 4
    /\ baud0 # 9600

(***************************************************************************)
(* C9.  auto_baud never makes more than eight probes; when it returns      *)
(* without a successful test(), it has made exactly eight probes, one at   *)
(* each candidate, it returns Hc12Error::AutoBaudRate, and the transport   *)
(* is configured at 115200.                                                *)
(***************************************************************************)
C9_AutoBaudExhausted ==
    op = "auto_baud" =>
        /\ Len(Probes) <= 8
        /\ (pc = "done" /\ \A i \in 1..Len(Probes) : ~Probes[i][3]) =>
              /\ Len(Probes) = 8
              /\ \A i \in 1..8 : Probes[i][2] = Ascending[i]
              /\ result = Res("AutoBaudRate", "")
              /\ baud = 115200
        /\ (pc = "done" /\ result.kind # "Ok") =>
              /\ result.kind = "AutoBaudRate"
              /\ \A i \in 1..Len(Probes) : ~Probes[i][3]

\* auto_baud returned AutoBaudRate after eight failed probes, from a
\* transport that was not at 115200 when it was called
C9_Witness ==
    /\ Returned("auto_baud")
    /\ result.kind = "AutoBaudRate"
    /\ Len(Probes) = 8
    /\ baud = 115200
    /\ baud0 # 115200

(***************************************************************************)
(* C10.  test() writes exactly "AT"; when its exchange succeeded at the    *)
(* byte level it returns Ok iff the bytes read are exactly "OK\r\n",       *)
(* Hc12Error::Test on every other decodable response ("OK\n" and the empty *)
(* response included) and Hc12Error::InvalidResponse on bytes that are no  *)
(* UTF-8 text.                                                             *)
(***************************************************************************)
C10_TestResult ==
    Returned("test") =>
        /\ tx \in {<<>>, <<65, 84>>}
        /\ ByteLevelOk =>
              /\ tx = <<65, 84>>
              /\ result.kind \in {"Ok", "Test", "InvalidResponse"}
              /\ result.kind = "Ok" <=> rx = <<79, 75, 13, 10>>
              /\ result.kind = "InvalidResponse" <=> ~ValidUtf8(rx)
        /\ ~ByteLevelOk => result.kind = "UartError"

\* test() returned Hc12Error::Test on a response that never arrived
C10_Witness ==
    /\ Returned("test")
    /\ tx = <<65, 84>>
    /\ sendResult = SendOk(<<>>)
    /\ rx = <<>>
    /\ result.kind = "Test"

(***************************************************************************)
(* C11.  set_default writes exactly "AT+DEFAULT" and never panics; it      *)
(* returns Ok iff the exchange decoded the response "OK+DEFAULT\r\n", and   *)
(* Hc12Error::Default on every other outcome of the exchange: another      *)
(* response, an undecodable one, a fault of the write, the flush or the    *)
(* read.                                                                   *)
(***************************************************************************)
C11_DefaultResult ==
    op = "set_default" =>
        /\ pc # "panicked"
        /\ tx \in {<<>>, <<65, 84, 43, 68, 69, 70, 65, 85, 76, 84>>}
        /\ pc = "done" =>
              /\ result.kind \in {"Ok", "Default"}
              /\ result.kind = "Ok" <=>
                    /\ tx = <<65, 84, 43, 68, 69, 70, 65, 85, 76, 84>>
                    /\ sendResult.kind = "Ok"
                    /\ rx = <<79, 75, 43, 68, 69, 70, 65, 85, 76, 84, 13, 10>>

\* set_default returned Hc12Error::Default on a fault of the read
C11_Witness ==
    /\ Returned("set_default")
    /\ sendResult.kind = "UartError"
    /\ fault = "read"
    /\ result.kind = "Default"

(***************************************************************************)
(* C12 (as claimed).  When a transport write, flush, read or set_config    *)
(* has failed during test, auto_baud, set_baud, set_transmission_mode or   *)
(* set_default, outside the drain loop, the operation starts no further    *)
(* exchange, does not panic, and returns the transport-fault kind          *)
(* Hc12Error::UartError.                                                   *)
(***************************************************************************)
C12_TransportFaultPropagated ==
    (op \in CommandOps /\ fault # "none") =>
        /\ ~retried
        /\ pc # "panicked"
        /\ pc = "done" => result.kind = "UartError"

(***************************************************************************)
(* C13 (as claimed).  No public operation panics: whatever the transport   *)
(* calls return and whatever bytes are read, the operation ends by         *)
(* returning a Result.                                                     *)
(***************************************************************************)
C13_NoPanic == pc # "panicked"

(***************************************************************************)
(* C17.  For the BaudRate handed to set_baud, parsing the numeral string   *)
(* of the rate (From<&BaudRate> for &str) gives the rate's integer         *)
(* (From<BaudRate> for u32), formatting that integer gives the numeral     *)
(* string back, and the owned and the borrowed integer conversions agree.  *)
(***************************************************************************)
C17_BaudRoundTrip ==
    op = "set_baud" =>
        /\ ParseU32(BaudStr(arg)) = BaudU32(arg)
        /\ ParseU32(BaudStr(arg)) = BaudU32Ref(arg)
        /\ FmtU32(BaudU32(arg)) = BaudStr(arg)
        /\ BaudU32(arg) = BaudU32Ref(arg)

\* set_baud was called with each of the eight rates; here the longest
\* numeral
C17_Witness ==
    /\ Returned("set_baud")
    /\ arg = "Baud115200"
    /\ ParseU32(BaudStr(arg)) = 115200

(***************************************************************************)
(* C20 (as claimed).  Whenever no command exchange is in progress, and in  *)
(* particular right after Hc12::new in either driver, the SET line is      *)
(* high.                                                                   *)
(***************************************************************************)
C20_StrobeHighWhenIdle == pc = "idle" => set = "High"

(***************************************************************************)
(* C14 (as claimed).  When the async driver has ended the operation that   *)
(* the blocking driver ended before it, from construction, with the same   *)
(* transport outcomes and the same replies of the module, both have made   *)
(* the same strobe transitions, writes, flushes, reads and                 *)
(* reconfigurations in the same order, ended the same way with the same    *)
(* Result, and left the SET line and the baud rate the same.               *)
(***************************************************************************)
C14_DriversEquivalent ==
    (phase = 2 /\ pc \in {"done", "panicked"}) =>
        Summary(Observable(trace), pc, result, set, baud)
            = Summary(Observable(first.trace), first.pc, first.result,
                      first.set, first.baud)

(***************************************************************************)
(* C15 (as claimed).  In the async driver a cancellation never takes       *)
(* effect between the exchange's set_low and its set_high: an operation    *)
(* whose future is dropped is not between the two.                         *)
(***************************************************************************)
C15_NoCancelWhileLow ==
    [][(pc \in AwaitPoints /\ pc' = "idle") => ~StrobeHeldLow]_vars

(***************************************************************************)
(* C16.  Every step that is a pass-through operation (read_buffered,       *)
(* write, read, write_async, read_async, flush_async) leaves the SET line  *)
(* and the transport's baud rate as they were, makes exactly one transport *)
(* call, the one it is named after, and no strobe action, and returns that *)
(* call's result: Ok if it returned Ok, its error otherwise.               *)
(***************************************************************************)
C16_PassThroughFrame ==
    [][(pc = "idle" /\ op' \in PassOps) =>
          /\ set' = set
          /\ baud' = baud
          /\ pc' = "done"
          /\ Len(obs') = 1
          /\ obs'[1].e = PassCall(op')
          /\ result'.kind = (IF obs'[1].ok THEN "Ok" ELSE "UartError")
          /\ obs'[1].e = "write" => (obs'[1].ok => tx' = obs'[1].data)
          /\ obs'[1].e = "read" =>
                /\ rx' = obs'[1].data
                /\ obs'[1].ok => rx' \o fifo' = fifo
                /\ ~obs'[1].ok => fifo' = fifo
          /\ obs'[1].e # "read" => fifo' = fifo]_vars

\* read_async handed over a byte received over the air, after an
\* operation that changed the baud rate
C16_Witness ==
    /\ Returned("read_async")
    /\ rx = <<88>>
    /\ result.kind = "Ok"
    /\ fifo = <<>>
    /\ baud # 115200
    /\ baud = baud0

(***************************************************************************)
(* C18 (as claimed).  An exchange, in either driver, makes no strobe       *)
(* action and no transport call but reads while it drains, and when it has *)
(* run to its end it has made exactly these actions in this order: the     *)
(* drain read that returned no byte or an error; set_low; delay; write of  *)
(* the command frame; flush; delay; one read; set_high; delay; decode.     *)
(***************************************************************************)
C18_ExchangeOrder ==
    /\ pc = "drain" => obs = <<>>
    /\ (pc = "sent" /\ ByteLevelOk) =>
          /\ Len(obs) = 1 + Len(ClaimedSteps)
          /\ obs[1].e = "drain_read"
          /\ ~obs[1].ok \/ obs[1].data = <<>>
          /\ \A i \in 1..Len(ClaimedSteps) : obs[1 + i].e = ClaimedSteps[i]
          /\ obs[4].data = command

(***************************************************************************)
(* C19 (as claimed).  The response an exchange returns holds no byte that  *)
(* was in the receive FIFO before the command frame was written, also      *)
(* when a drain read returned an error.                                    *)
(***************************************************************************)
C19_NoStaleByteInResponse ==
    (pc = "sent" /\ ByteLevelOk) => Min(pre, Len(rx)) = 0

=============================================================================
